---- MODULE Spec2Model ----
(***************************************************************************)
(* Model of bot_prototype.py: the in-memory conversation store, the        *)
(* Conversation view, the two joke bots, the bot factory and the two HTTP  *)
(* handlers (POST and GET /user/<username>/message).                       *)
(*                                                                         *)
(* Every request is a thread of the Flask server.  A request advances one  *)
(* access to the shared store at a time (field pc); the steps local to a   *)
(* request are taken together with the shared access that follows them.    *)
(* Spec lets the requests of the threaded server interleave on the shared  *)
(* lists; SeqSpec is the same program with requests handled one after      *)
(* another.                                                                *)
(***************************************************************************)
EXTENDS Naturals, Sequences, FiniteSets

\* ---------------------------------------------------------------- bounds
MaxPost == 2

MaxGet == 1

MaxInFlight == 2

Req == 1..(MaxPost + MaxGet)

Ids == {"alice", "bob"}

Texts == {"hi", "dog"}

Selectors == {"jokeFinder", "other"}

Jokes == {"J1"}

\* result lists the search endpoint may answer with
SearchResults == {<<>>, <<"J2", "J1">>}

\* ------------------------------------------------------------- constants
WelcomeText == "Welcome! Let me tell you a joke."

None == "None:NoneType"

OK == 200

NotFound == 404

ServerError == 500

\* JSON bodies of a POST: objects over the keys "text" and "bot_type".  The
\* second text is sent to the search bot only, the one bot that reads it.
Bodies ==
  { b \in UNION { [D -> Texts \cup Selectors] : D \in SUBSET {"text", "bot_type"} } :
      /\ ("text" \in DOMAIN b => b["text"] \in Texts)
      /\ ("bot_type" \in DOMAIN b => b["bot_type"] \in Selectors)
      /\ (("text" \in DOMAIN b /\ b["text"] = "dog")
            => ("bot_type" \in DOMAIN b /\ b["bot_type"] = "jokeFinder")) }

NoBody == [k \in {} |-> ""]

VARIABLES
  storage,   \* inmemory_storage: identifier -> list of events
  keys,      \* identifiers that are keys of the defaultdict
  owner,     \* history variable: owner[id][i] is the request that appended storage[id][i]
  req,       \* the requests: locals of each handler invocation and its position
  started    \* number of requests received so far

vars == <<storage, keys, owner, req, started>>

\* ------------------------------------------------------- pure operations
UserEvent(message) == [type |-> "user", message |-> message]

BotEvent_as_user(message) == [type |-> "user", message |-> message]

BotEvent(message) == [type |-> "bot", message |-> message]

new_events_dict_whole(events, number_old_events) == events

new_events_dict_skip(events, number_old_events) ==
  IF number_old_events + 1 >= Len(events) THEN <<>>
  ELSE SubSeq(events, number_old_events + 2, Len(events))

\* Conversation.new_events_dict: conversation_events[number_old_events:]
new_events_dict(events, number_old_events) ==
  IF number_old_events >= Len(events) THEN <<>>
  ELSE SubSeq(events, number_old_events + 1, Len(events))

bot_responses_unfiltered(events) == [i \in 1..Len(events) |-> events[i].message]

\* the list comprehension of handle_user_message
RECURSIVE bot_responses(_)
bot_responses(events) ==
  IF events = <<>> THEN <<>>
  ELSE (IF Head(events).type = "bot" THEN <<Head(events).message>> ELSE <<>>)
         \o bot_responses(Tail(events))

\* request.json['bot_type'] if 'bot_type' in request.json else None
query_name(body) ==
  IF "bot_type" \in DOMAIN body THEN body["bot_type"] ELSE None

get_relevant_bot_none(query) ==
  IF query = "jokeFinder" THEN "ChuckNorrisJokeFinderBot"
  ELSE IF query = None THEN None ELSE "ChuckNorrisBot"

\* JokeFactory.get_relevant_bot
get_relevant_bot(query) ==
  IF query = "jokeFinder" THEN "ChuckNorrisJokeFinderBot" ELSE "ChuckNorrisBot"

is_first_turn_two(n) == n <= 2

is_first_turn_never(n) == n < 1

\* the welcome test of handle_message
is_first_turn(n) == n <= 1

\* ChuckNorrisJokeFinderBot.retrieve_joke on a well-formed answer
Fallback(message_text) ==
  "Phew!! The joke with the text '" \o message_text \o "' was hard to find."

finder_joke_last(message_text, result) ==
  IF result # <<>> THEN result[Len(result)] ELSE Fallback(message_text)

finder_joke(message_text, result) ==
  IF result # <<>> THEN result[1] ELSE Fallback(message_text)

history_status_ok(truthy) == OK

\* status of retrieve_conversation_history
history_status(truthy) == IF truthy THEN OK ELSE NotFound

\* ------------------------------------------------------------------ Init
IdleReq ==
  [pc |-> "idle", method |-> "", username |-> "alice", body |-> NoBody,
   message_text |-> "", query |-> None, number_old_events |-> 0,
   bot |-> None, seen_len |-> 0, joke |-> "", truthy |-> FALSE,
   new_events |-> <<>>, status |-> 0, response |-> <<>>,
   answer |-> <<>>, retrieval |-> ""]

Init ==
  /\ storage = [i \in Ids |-> <<>>]
  /\ keys = {}
  /\ owner = [i \in Ids |-> <<>>]
  /\ req = [r \in Req |-> IdleReq]
  /\ started = 0

Prepend2(r, ev) ==
  /\ storage' = [storage EXCEPT ![req[r].username] = <<ev>> \o @]
  /\ owner' = [owner EXCEPT ![req[r].username] = <<r>> \o @]

Append2_aliased(r, ev) ==
  /\ storage' = [i \in Ids |-> Append(storage[i], ev)]
  /\ owner' = [i \in Ids |-> Append(owner[i], r)]

\* list.append on the shared history (add_user_message, add_bot_message)
Append2(r, ev) ==
  /\ storage' = [storage EXCEPT ![req[r].username] = Append(@, ev)]
  /\ owner' = [owner EXCEPT ![req[r].username] = Append(@, r)]

\* --------------------------------------------------------------- actions
Received(m) == Cardinality({q \in Req : req[q].method = m})

InFlight == Cardinality({q \in Req : req[q].pc \notin {"idle", "done"}})

CanReceive_serial(r, m) ==
  /\ r = started + 1
  /\ req[r].pc = "idle"
  /\ Received(m) < (IF m = "POST" THEN MaxPost ELSE MaxGet)
  /\ InFlight < MaxInFlight
  /\ \A q \in Req : req[q].pc \in {"idle", "done"}

\* a request can be received: requests are numbered in order of arrival
CanReceive(r, m) ==
  /\ r = started + 1
  /\ req[r].pc = "idle"
  /\ Received(m) < (IF m = "POST" THEN MaxPost ELSE MaxGet)
  /\ InFlight < MaxInFlight

\* requests handled one after another
Quiescent == \A q \in Req : req[q].pc \in {"idle", "done"}

PostRejected_touching(r) ==
  /\ CanReceive(r, "POST")
  /\ started' = r
  /\ \E u \in Ids, b \in Bodies :
       /\ "text" \notin DOMAIN b
       /\ keys' = keys \cup {u}
       /\ req' = [req EXCEPT ![r] = [@ EXCEPT !.pc = "done", !.method = "POST",
                                             !.username = u, !.body = b,
                                             !.status = ServerError]]
  /\ UNCHANGED <<storage, owner>>

\* handle_user_message, body without "text": request.json["text"] raises
\* KeyError, which leaves the view; Flask answers 500
PostRejected(r) ==
  /\ CanReceive(r, "POST")
  /\ started' = r
  /\ \E u \in Ids, b \in Bodies :
       /\ "text" \notin DOMAIN b
       /\ req' = [req EXCEPT ![r] = [@ EXCEPT !.pc = "done", !.method = "POST",
                                             !.username = u, !.body = b,
                                             !.status = ServerError]]
  /\ UNCHANGED <<storage, keys, owner>>

\* handle_user_message up to the call of handle_message: the body is read,
\* conversationPersistence looks the history up (which creates the key) and
\* Conversation snapshots its length, the factory selects the bot
PostOpen(r) ==
  /\ CanReceive(r, "POST")
  /\ started' = r
  /\ \E u \in Ids, b \in Bodies :
       /\ "text" \in DOMAIN b
       /\ keys' = keys \cup {u}
       /\ req' = [req EXCEPT ![r] = [@ EXCEPT !.pc = "add_user", !.method = "POST",
                                             !.username = u, !.body = b,
                                             !.message_text = b["text"],
                                             !.query = query_name(b),
                                             !.number_old_events = Len(storage[u]),
                                             !.bot = get_relevant_bot(query_name(b))]]
  /\ UNCHANGED <<storage, owner>>

\* conversation.add_user_message(message_text)
AddUser(r) ==
  /\ req[r].pc = "add_user"
  /\ Append2(r, UserEvent(req[r].message_text))
  /\ req' = [req EXCEPT ![r] = [@ EXCEPT !.pc = "check"]]
  /\ UNCHANGED <<keys, started>>

\* if len(conversation.conversation_events) <= 1
CheckWelcome(r) ==
  /\ req[r].pc = "check"
  /\ LET n == Len(storage[req[r].username]) IN
       req' = [req EXCEPT ![r] = [@ EXCEPT !.seen_len = n,
                 !.pc = IF is_first_turn(n) THEN "welcome" ELSE "retrieve"]]
  /\ UNCHANGED <<storage, keys, owner, started>>

\* conversation.add_bot_message("Welcome! Let me tell you a joke.")
AddWelcome(r) ==
  /\ req[r].pc = "welcome"
  /\ Append2(r, BotEvent(WelcomeText))
  /\ req' = [req EXCEPT ![r] = [@ EXCEPT !.pc = "retrieve"]]
  /\ UNCHANGED <<keys, started>>

\* well-formed answers of the external service to the request's call: the
\* "result" list of the search endpoint, the "value" of the random endpoint
ExternalAnswers(r) ==
  IF req[r].bot = "ChuckNorrisJokeFinderBot"
    THEN SearchResults
    ELSE { <<j>> : j \in Jokes }

\* retrieve_joke of the request's bot on a well-formed answer
retrieve_joke(r, answer) ==
  IF req[r].bot = "ChuckNorrisJokeFinderBot"
    THEN finder_joke(req[r].message_text, answer)
    ELSE answer[1]

\* what retrieve_joke returns when the external service answers well-formed
Retrieved(r) == { retrieve_joke(r, a) : a \in ExternalAnswers(r) }

\* joke = self.retrieve_joke(...) returns; conversation.add_bot_message(joke)
AddJoke(r) ==
  /\ req[r].pc = "retrieve"
  /\ \E a \in ExternalAnswers(r) :
       LET j == retrieve_joke(r, a) IN
         /\ j \in Retrieved(r)
         /\ Append2(r, BotEvent(j))
         /\ req' = [req EXCEPT ![r] = [@ EXCEPT !.pc = "respond", !.joke = j,
                                               !.answer = a, !.retrieval = "ok"]]
  /\ UNCHANGED <<keys, started>>

RetrieveFail_apology(r) ==
  /\ req[r].pc = "retrieve"
  /\ Append2(r, BotEvent("Sorry, no joke this time."))
  /\ req' = [req EXCEPT ![r] = [@ EXCEPT !.pc = "respond", !.retrieval = "failed"]]
  /\ UNCHANGED <<keys, started>>

\* the external call raises (network error, malformed answer): the exception
\* leaves handle_message and the view, Flask answers 500
RetrieveFail(r) ==
  /\ req[r].pc = "retrieve"
  /\ req' = [req EXCEPT ![r] = [@ EXCEPT !.pc = "done", !.status = ServerError,
                                        !.retrieval = "failed"]]
  /\ UNCHANGED <<storage, keys, owner, started>>

\* bot_responses = [... conversation.new_events_dict() ...]; return jsonify(bot_responses)
Respond(r) ==
  /\ req[r].pc = "respond"
  /\ LET ne == new_events_dict(storage[req[r].username], req[r].number_old_events) IN
       req' = [req EXCEPT ![r] = [@ EXCEPT !.pc = "done", !.new_events = ne,
                                          !.status = OK, !.response = bot_responses(ne)]]
  /\ UNCHANGED <<storage, keys, owner, started>>

\* retrieve_conversation_history: history = inmemory_storage[username]; if history
GetLookup(r) ==
  /\ CanReceive(r, "GET")
  /\ started' = r
  /\ \E u \in Ids :
       /\ keys' = keys \cup {u}
       /\ req' = [req EXCEPT ![r] = [@ EXCEPT !.pc = "serialize", !.method = "GET",
                                             !.username = u,
                                             !.truthy = (storage[u] # <<>>)]]
  /\ UNCHANGED <<storage, owner>>

\* return jsonify(history), 200 / 404
GetRespond(r) ==
  /\ req[r].pc = "serialize"
  /\ req' = [req EXCEPT ![r] = [@ EXCEPT !.pc = "done",
                                        !.status = history_status(req[r].truthy),
                                        !.response = storage[req[r].username]]]
  /\ UNCHANGED <<storage, keys, owner, started>>

Receive(r) == PostRejected(r) \/ PostOpen(r) \/ GetLookup(r)

Step(r) ==
  \/ AddUser(r)
  \/ CheckWelcome(r)
  \/ AddWelcome(r)
  \/ AddJoke(r)
  \/ RetrieveFail(r)
  \/ Respond(r)
  \/ GetRespond(r)

Next == \E r \in Req : Receive(r) \/ Step(r)

Spec == Init /\ [][Next]_vars

NextSeq == \E r \in Req : (Quiescent /\ Receive(r)) \/ Step(r)

SeqSpec == Init /\ [][NextSeq]_vars

TypeOK ==
  /\ keys \subseteq Ids
  /\ started \in 0..(MaxPost + MaxGet)
  /\ \A i \in Ids : Len(owner[i]) = Len(storage[i])

\* ------------------------------------------------- vocabulary of the claims
RECURSIVE OwnedFrom(_, _, _)
OwnedFrom(u, r, i) ==
  IF i > Len(storage[u]) THEN <<>>
  ELSE (IF owner[u][i] = r THEN <<storage[u][i]>> ELSE <<>>) \o OwnedFrom(u, r, i + 1)

\* the events request r appended, in the order they stand in the history
Appended(r) == OwnedFrom(req[r].username, r, 1)

BotTexts(events) ==
  LET sel == SelectSeq(events, LAMBDA e : e.type = "bot")
  IN  [i \in 1..Len(sel) |-> sel[i].message]

IsPrefix(s, t) == Len(s) <= Len(t) /\ SubSeq(t, 1, Len(s)) = s

IsPost(r) == req[r].method = "POST" /\ req[r].pc # "idle"

IsGet(r) == req[r].method = "GET" /\ req[r].pc # "idle"

\* the POST was rejected for its missing "text"
Rejected(r) == IsPost(r) /\ "text" \notin DOMAIN req[r].body

\* handle_message was invoked for the POST
Invoked(r) == IsPost(r) /\ "text" \in DOMAIN req[r].body

\* the invocation is past its welcome branch
PastCheck(r) == Invoked(r) /\ req[r].pc \in {"retrieve", "respond", "done"}

\* handle_message returned normally
Returned(r) == Invoked(r) /\ (req[r].pc = "respond" \/ (req[r].pc = "done" /\ req[r].status = OK))

\* the POST answered with success
Succeeded(r) == Invoked(r) /\ req[r].pc = "done" /\ req[r].status = OK

\* the POST failed at retrieval
FailedAtRetrieval(r) == Invoked(r) /\ req[r].pc = "done" /\ req[r].status # OK

Welcomed(r) == \E i \in 1..Len(Appended(r)) : Appended(r)[i] = BotEvent(WelcomeText)

\* -------------------------------------------------------------------- C1
\* C1 as stated: an invocation appends the welcome message iff the identifier
\* held 0 or 1 events immediately before the invocation.
C1_WelcomeIffZeroOrOne ==
  \A r \in Req : PastCheck(r) =>
    (Welcomed(r) <=> req[r].number_old_events \in {0, 1})

\* C1 amended: an invocation appends the welcome message iff the identifier
\* held 0 events immediately before the invocation and no other request
\* appended to it before the invocation's length test; with 1 prior event the
\* welcome is never appended.
C1_WelcomeIffZero ==
  \A r \in Req : PastCheck(r) =>
    (Welcomed(r) <=> (/\ req[r].number_old_events = 0
                      /\ req[r].seen_len = req[r].number_old_events + 1))

C1_Witness ==
  \E r \in Req : /\ PastCheck(r)
                 /\ req[r].number_old_events = 1
                 /\ ~Welcomed(r)
                 /\ req[r].pc = "done"

\* -------------------------------------------------------------------- C2
\* C2: with requests handled one after another, new_events_dict() of a
\* request's Conversation is exactly the events that request appended, in
\* append order, and holds no position appended by an earlier request.
C2_NewEventsExact ==
  \A r \in Req : Succeeded(r) =>
    /\ req[r].new_events = Appended(r)
    /\ \A i \in 1..Len(req[r].new_events) :
         owner[req[r].username][req[r].number_old_events + i] = r

C2_Witness ==
  \E r \in Req : /\ Succeeded(r)
                 /\ req[r].number_old_events >= 3
                 /\ Len(req[r].new_events) = 2

\* -------------------------------------------------------------------- C3
\* C3: a handle_message invocation that returned has appended exactly one
\* user event (the request's text) followed by one or two bot events, and
\* two bot events only when the identifier had no event before it.
C3_OneUserThenBots ==
  \A r \in Req : Returned(r) =>
    LET a == Appended(r) IN
      /\ Len(a) \in {2, 3}
      /\ a[1] = UserEvent(req[r].message_text)
      /\ \A i \in 2..Len(a) : a[i].type = "bot"
      /\ a[Len(a)] = BotEvent(req[r].joke)
      /\ (Len(a) = 3 => req[r].number_old_events = 0 /\ a[2] = BotEvent(WelcomeText))

C3_Witness ==
  \E r, q \in Req : /\ r # q
                    /\ req[r].username = req[q].username
                    /\ Returned(r) /\ Len(Appended(r)) = 3
                    /\ Returned(q) /\ Len(Appended(q)) = 2

C5_FactoryTotal ==
  \A r \in Req : Invoked(r) =>
    /\ req[r].bot \in {"ChuckNorrisJokeFinderBot", "ChuckNorrisBot"}
    /\ (req[r].bot = "ChuckNorrisJokeFinderBot"
          <=> ("bot_type" \in DOMAIN req[r].body /\ req[r].body["bot_type"] = "jokeFinder"))
    /\ (req[r].pc = "add_user" => Appended(r) = <<>>)

C5_Witness ==
  \E r, q \in Req :
    /\ Invoked(r) /\ req[r].body = [text |-> "hi", bot_type |-> "other"]
    /\ req[r].bot = "ChuckNorrisBot"
    /\ Invoked(q) /\ "bot_type" \notin DOMAIN req[q].body
    /\ req[q].bot = "ChuckNorrisBot"

RECURSIVE PostedEvents(_, _)
PostedEvents(u, n) ==
  IF n = 0 THEN <<>>
  ELSE PostedEvents(u, n - 1)
         \o (IF IsPost(n) /\ req[n].username = u THEN req[n].new_events ELSE <<>>)

RECURSIVE PostedResponses(_, _)
PostedResponses(u, n) ==
  IF n = 0 THEN <<>>
  ELSE PostedResponses(u, n - 1)
         \o (IF IsPost(n) /\ req[n].username = u THEN req[n].response ELSE <<>>)

AllPostsSucceeded(u) ==
  \A q \in Req : (IsPost(q) /\ req[q].username = u) => Succeeded(q)

\* C7: with requests handled one after another, when every POST to an
\* identifier so far succeeded, a GET returns the concatenation in request
\* order of the events those POSTs appended, and the bot texts of the GET
\* result are the concatenation of the POST responses.
C7_GetIsConcatOfPosts ==
  \A g \in Req :
    (IsGet(g) /\ req[g].pc = "done" /\ started = g /\ AllPostsSucceeded(req[g].username)) =>
      /\ req[g].response = PostedEvents(req[g].username, g)
      /\ BotTexts(req[g].response) = PostedResponses(req[g].username, g)

C7_Witness ==
  \E g \in Req :
    /\ IsGet(g) /\ req[g].pc = "done" /\ started = g
    /\ AllPostsSucceeded(req[g].username)
    /\ Cardinality({q \in Req : IsPost(q) /\ req[q].username = req[g].username}) = 2

\* -------------------------------------------------------------------- C8
\* C8: the step that rejects a POST without "text" leaves every identifier's
\* history, and the key set of the store, as they were.
C8_RejectLeavesStore ==
  [][\A r \in Req :
       (req[r].pc = "idle" /\ req'[r].method = "POST" /\ "text" \notin DOMAIN req'[r].body)
         => (storage' = storage /\ keys' = keys)]_vars

C8_Witness ==
  \E r \in Req : /\ Rejected(r) /\ req[r].pc = "done"
                 /\ storage[req[r].username] # <<>>
                 /\ \E i \in Ids : i \notin keys

\* -------------------------------------------------------------------- C9
\* C9: a POST without "text" is answered with a client-error status (4xx).
C9_RejectIsClientError ==
  \A r \in Req : (Rejected(r) /\ req[r].pc = "done") => req[r].status \in 400..499

\* ------------------------------------------------------------------- C10
\* C10: in every step, each identifier's history before the step is a prefix
\* of its history after the step.
C10_AppendOnly ==
  [][\A i \in Ids : IsPrefix(storage[i], storage'[i])]_vars

C10_Witness ==
  /\ \E r \in Req : Succeeded(r)
  /\ \E r \in Req : FailedAtRetrieval(r)
  /\ \E r \in Req : IsGet(r) /\ req[r].pc = "done"

\* ------------------------------------------------------------------- C11
\* C11: for every search text and every well-formed answer, the search bot's
\* retrieve_joke returns the first match's text when the result list is
\* non-empty and exactly "Phew!! The joke with the text '<text>' was hard to
\* find." with the search text in place of <text> when it is empty.
C11_FinderJoke ==
  \A r \in Req :
    (Invoked(r) /\ req[r].bot = "ChuckNorrisJokeFinderBot" /\ req[r].retrieval = "ok") =>
      /\ (req[r].answer # <<>> => req[r].joke = Head(req[r].answer))
      /\ (req[r].answer = <<>> /\ req[r].body["text"] = "hi"
            => req[r].joke = "Phew!! The joke with the text 'hi' was hard to find.")
      /\ (req[r].answer = <<>> /\ req[r].body["text"] = "dog"
            => req[r].joke = "Phew!! The joke with the text 'dog' was hard to find.")

C11_Witness ==
  \E r, q \in Req :
    /\ req[r].bot = "ChuckNorrisJokeFinderBot" /\ req[r].retrieval = "ok"
    /\ Len(req[r].answer) = 2 /\ req[r].joke = "J2"
    /\ req[q].bot = "ChuckNorrisJokeFinderBot" /\ req[q].retrieval = "ok"
    /\ req[q].answer = <<>> /\ req[q].body["text"] = "dog"

\* ------------------------------------------------------------------- C12
\* the external call of the POST raised
RetrievalFailed(r) == Invoked(r) /\ req[r].retrieval = "failed"

C13_OnlyUserEventLeft ==
  \A r \in Req :
    /\ (RetrievalFailed(r) => Appended(r) = <<UserEvent(req[r].message_text)>>)
    /\ (Rejected(r) => Appended(r) = <<>>)

\* C13 amended: a request that failed at retrieval leaves behind its user
\* event, followed by the welcome event when it was the identifier's first
\* turn (the welcome is appended before the retrieval); a rejected request
\* leaves nothing behind.
C13_UserAndWelcomeLeft ==
  \A r \in Req :
    /\ (RetrievalFailed(r) =>
          Appended(r) =
            IF req[r].number_old_events = 0 /\ req[r].seen_len = 1
              THEN <<UserEvent(req[r].message_text), BotEvent(WelcomeText)>>
              ELSE <<UserEvent(req[r].message_text)>>)
    /\ (Rejected(r) => Appended(r) = <<>>)

C13_Witness ==
  \E r, q \in Req :
    /\ RetrievalFailed(r) /\ Len(Appended(r)) = 2
    /\ RetrievalFailed(q) /\ Len(Appended(q)) = 1
    /\ req[r].username = req[q].username

\* ------------------------------------------------------------------- C14
\* C14: requests to one identifier interleave on the shared list with no
\* mutual exclusion: the slice a request reads is whatever stands in the
\* shared list behind its baseline, its own events and any other request's,
\* and the response is the bot texts of that slice (C14_Witness: a response
\* that holds another request's bot event).
C14_SliceIsSharedTail ==
  \A r \in Req : Succeeded(r) =>
    LET u == req[r].username
        n == req[r].number_old_events
        k == Len(req[r].new_events)
    IN  /\ n + k <= Len(storage[u])
        /\ req[r].new_events = SubSeq(storage[u], n + 1, n + k)
        /\ \A i \in 1..Len(storage[u]) : owner[u][i] = r => (n < i /\ i <= n + k)
        /\ req[r].response = BotTexts(req[r].new_events)

C14_Witness ==
  \E r \in Req :
    /\ Succeeded(r)
    /\ \E i \in 1..Len(req[r].new_events) :
         /\ owner[req[r].username][req[r].number_old_events + i] # r
         /\ req[r].new_events[i].type = "bot"
    /\ Len(req[r].response) > Len(BotTexts(Appended(r)))

\* ------------------------------------------------------------------- C15
\* C15: while a POST waits for the external service, every other request in
\* progress can take its next step, and a new GET or POST can be received
\* (as far as the bounds of the model admit another request).
C15_WaitingBlocksOnlyItself ==
  \A r \in Req : req[r].pc = "retrieve" =>
    /\ \A q \in Req \ {r} : req[q].pc \notin {"idle", "done"} => ENABLED Step(q)
    /\ \A q \in Req : (q = started + 1 /\ InFlight < MaxInFlight) =>
         /\ (Received("GET") < MaxGet => ENABLED GetLookup(q))
         /\ (Received("POST") < MaxPost => ENABLED PostOpen(q))

C15_Witness ==
  \E r, q, g \in Req :
    /\ req[r].pc = "retrieve"
    /\ r < q /\ Succeeded(q) /\ req[q].username = req[r].username
    /\ r < g /\ IsGet(g) /\ req[g].pc = "done" /\ req[g].username = req[r].username

\* ------------------------------------------------------------------- C16
\* the steps of a request the server takes by itself; the return of the
\* external call (AddJoke, RetrieveFail) is up to the external service
ServerStep(r) ==
  \/ AddUser(r)
  \/ CheckWelcome(r)
  \/ AddWelcome(r)
  \/ Respond(r)
  \/ GetRespond(r)

\* requests handled one after another by a server that keeps running; no
\* fairness on the external service, which may never answer
FairSeqSpec == SeqSpec /\ \A r \in Req : WF_vars(ServerStep(r))

\* C16: every POST eventually responds, also when the external service never
\* answers.
C16_PostEventuallyResponds ==
  \A r \in Req : IsPost(r) ~> (req[r].pc = "done")

\* ------------------------------------------------------------------- C17
\* C17: every step of a request leaves the history of every other identifier
\* unchanged and adds at most the request's identifier to the keys; a step of
\* a GET changes no history at all; and the first POST to an identifier that
\* a GET has looked up before (creating its empty entry) still appends and
\* answers the welcome.
C17_Frame ==
  /\ [][\A r \in Req : req'[r] # req[r] =>
          /\ \A i \in Ids \ {req'[r].username} : storage'[i] = storage[i]
          /\ keys \subseteq keys' /\ keys' \subseteq keys \cup {req'[r].username}
          /\ (req'[r].method = "GET" => storage' = storage)]_vars
  /\ [](\A g, q \in Req :
          (/\ IsGet(g) /\ req[g].status = NotFound /\ g < q
           /\ Succeeded(q) /\ req[q].username = req[g].username
           /\ req[q].number_old_events = 0 /\ req[q].seen_len = 1)
            => (/\ Welcomed(q)
                /\ \E i \in 1..Len(req[q].response) : req[q].response[i] = WelcomeText))

C17_Witness ==
  \E g, q \in Req :
    /\ IsGet(g) /\ req[g].status = NotFound /\ g < q
    /\ Succeeded(q) /\ req[q].username = req[g].username
    /\ Head(req[q].response) = WelcomeText
    /\ \E i \in Ids \ {req[q].username} : storage[i] # <<>>

\* ------------------------------------------------------------------- C18
WelcomeCount(u) ==
  Cardinality({i \in 1..Len(storage[u]) : storage[u][i] = BotEvent(WelcomeText)})

\* C18: under any interleaving and with retrieval failures, each history
\* holds at most one welcome event and, when non-empty, begins with a user
\* event.
C18_OneWelcomeUserFirst ==
  \A u \in Ids :
    /\ WelcomeCount(u) <= 1
    /\ (storage[u] # <<>> => storage[u][1].type = "user")

C18_Witness ==
  \E r, q \in Req :
    /\ r # q /\ req[r].username = req[q].username
    /\ RetrievalFailed(r) /\ Succeeded(q)
    /\ req[q].number_old_events = 0 /\ req[r].number_old_events = 0
    /\ WelcomeCount(req[r].username) = 1

\* ------------------------------------------------------------------- C19
\* C19: once a POST to an identifier has succeeded, the identifier's history
\* holds the welcome event.
C19_WelcomeOnceSucceeded ==
  \A r \in Req : Succeeded(r) => WelcomeCount(req[r].username) >= 1
====
